---- MODULE Spec2Model ----
(***************************************************************************)
(* Model of the SWV gain analysis of BiosensumPipeline (src/utils.py,      *)
(* src/main.py): ExtremumFinder (filter_peak_by_prominence), the adaptive  *)
(* prominence search (find_extreme_peaks), feature selection               *)
(* (most_relevant_minimum, find_nearest_maxima), the baseline projection   *)
(* (calculate_current_difference) and the pipeline of main().              *)
(*                                                                         *)
(* Conventions.  A column of the data frame is a function from the Python  *)
(* indices 0..n-1 to integers (a whole number of quanta of the channel).   *)
(* A Python list of indices is a sequence.  An optional index is None      *)
(* (the empty sequence) or Some(i) (a one-element sequence).  A prominence *)
(* threshold is the dyadic rational num / 2^exp, so that `prominence /= 2` *)
(* is exact, as it is on binary floating point.                            *)
(***************************************************************************)
EXTENDS Integers, Sequences, FiniteSets, TLC

VARIABLES
    current,      \* df['Current'] of the (smoothed) trace
    potential,    \* df['Potential'] of the (smoothed) trace
    m,            \* find_extreme_peaks: kind of peak, 1 = minima, other = maxima
    initial,      \* find_extreme_peaks: the prominence it was called with
    prominence,   \* find_extreme_peaks: local variable prominence
    iterations,   \* find_extreme_peaks: local variable iterations
    tried,        \* history: exponents k at which ExtremumFinder was evaluated
    raised,       \* history: the bare Exception of line 173 was raised
    result,       \* find_extreme_peaks: the returned list
    pc,           \* control position
    stage,        \* pipeline stage of main()
    failedStage,  \* history: first stage whose search raised (or "none")
    minList,      \* plot_current_vs_potential_with_units: local min
    maxList,      \* plot_current_vs_potential_with_units: local max
    minima,       \* plot_current_vs_potential_with_units: local minima
    maxima,       \* plot_current_vs_potential_with_units: local maxima
    outcome,      \* what the caller of main() observes
    call,         \* a direct call of one function: its name and arguments
    ret           \* the value that call returned

vars == <<current, potential, m, initial, prominence, iterations, tried, raised,
          result, pc, stage, failedStage, minList, maxList, minima, maxima,
          outcome, call, ret>>

searchVars == <<m, initial, prominence, iterations, tried, raised, result>>
pipeVars == <<stage, failedStage, minList, maxList, minima, maxima, outcome>>

-----------------------------------------------------------------------------
(* Bounds of the model *)

TraceLen == 5
PipeLen == 6
FrameLen == 3
MaxList == 3

Levels == {0, 1, 2}
Kinds == {0, 1}

(* Program constants *)

MaxIterations == 15

-----------------------------------------------------------------------------
(* Generic helpers *)

None == <<>>
Some(i) == <<i>>

Max(S) == CHOOSE x \in S : \A y \in S : y <= x
Min(S) == CHOOSE x \in S : \A y \in S : x <= y

RECURSIVE Pow2(_)
Pow2(k) == IF k = 0 THEN 1 ELSE 2 * Pow2(k - 1)

RECURSIVE SortedSeq(_)
SortedSeq(S) == IF S = {} THEN <<>> ELSE <<Min(S)>> \o SortedSeq(S \ {Min(S)})

RECURSIVE InsertSorted(_, _)
InsertSorted(s, x) ==
    IF s = <<>> THEN <<x>>
    ELSE IF x < Head(s) THEN <<x>> \o s
    ELSE <<Head(s)>> \o InsertSorted(Tail(s), x)

RECURSIVE sorted(_)
sorted(s) == IF s = <<>> THEN <<>> ELSE InsertSorted(sorted(Tail(s)), Head(s))

Range(s) == {s[i] : i \in DOMAIN s}
Size(x) == Cardinality(DOMAIN x)
Negated(x) == [i \in DOMAIN x |-> 0 - x[i]]

Columns(n, values) == [0..(n - 1) -> values]
Lists(indices, lo, hi) == UNION {[1..n -> indices] : n \in lo..hi}

-----------------------------------------------------------------------------
(* scipy.signal.find_peaks(x, prominence=p), as called by                  *)
(* filter_peak_by_prominence.                                              *)

\* prominence /= 2
Half(p) == [num |-> p.num, exp |-> p.exp + 1]

\* value >= p, for an integer value
AtLeast(value, p) == p.num <= value * Pow2(p.exp)

\* A flat run l..r strictly above both neighbours; the first and the last
\* sample never belong to one.
IsPlateauPeak(x, l, r) ==
    /\ 1 <= l /\ l <= r /\ r <= Size(x) - 2
    /\ \A i \in l..r : x[i] = x[l]
    /\ x[l - 1] < x[l]
    /\ x[r + 1] < x[l]

\* The peak of a flat run is its midpoint, rounded down.
LocalMaxima(x) ==
    {(lr[1] + lr[2]) \div 2 :
        lr \in {q \in (DOMAIN x) \X (DOMAIN x) : IsPlateauPeak(x, q[1], q[2])}}

\* Lowest sample between the peak and the nearest higher sample on the left.
LeftBase(x, p) ==
    LET higher == {j \in 0..(p - 1) : x[j] > x[p]}
        lo == IF higher = {} THEN 0 ELSE Max(higher) + 1
    IN Min({x[i] : i \in lo..p})

RightBase(x, p) ==
    LET higher == {j \in (p + 1)..(Size(x) - 1) : x[j] > x[p]}
        hi == IF higher = {} THEN Size(x) - 1 ELSE Min(higher) - 1
    IN Min({x[i] : i \in p..hi})

PeakProminence(x, p) == x[p] - Max({LeftBase(x, p), RightBase(x, p)})

find_peaks(x, p) == {i \in LocalMaxima(x) : AtLeast(PeakProminence(x, i), p)}

-----------------------------------------------------------------------------
(* filter_peak_by_prominence: ExtremumFinder *)

\* if m == 1: find_peaks(-df[column]) else: find_peaks(df[column])
Signal(x, kind) == IF kind = 1 THEN Negated(x) ELSE x

\* return peaks.tolist() if len(peaks) > 1 else []
\* (Faulty variant: a single peak is kept.)
KeepAll(peaks) == IF Cardinality(peaks) > 0 THEN SortedSeq(peaks) ELSE <<>>
PeakList(peaks) == IF Cardinality(peaks) > 1 THEN SortedSeq(peaks) ELSE <<>>

filter_peak_by_prominence(x, p, kind) == PeakList(find_peaks(Signal(x, kind), p))

-----------------------------------------------------------------------------
(* find_extreme_peaks: AdaptiveSearch *)

\* The condition of the while loop, on the list ExtremumFinder returned.
\* (Faulty variants: the emptiness test bound to the maxima search only; the
\* emptiness test left out.)
LoopCondMaximaOnly(found, kind) ==
    (Len(found) = 0 /\ kind # 1) \/ (Len(found) = 1 /\ kind # 1)
LoopCondNoEmptyTest(found, kind) == Len(found) = 1 /\ kind # 1
LoopCond(found, kind) == Len(found) = 0 \/ (Len(found) = 1 /\ kind # 1)

\* if iterations == 15: raise Exception
\* (Faulty variant: the cap tested one pass late.)
CapLate(it) == it = MaxIterations + 1
CapReached(it) == it = MaxIterations

Found == filter_peak_by_prominence(current, prominence, m)

\* One pass of the loop body that does not raise: iterations += 1; prominence /= 2
FepIterate ==
    /\ pc = "fep"
    /\ LoopCond(Found, m)
    /\ ~CapReached(iterations + 1)
    /\ iterations' = iterations + 1
    /\ prominence' = Half(prominence)
    /\ tried' = tried \cup {prominence.exp}
    /\ UNCHANGED <<current, potential, m, initial, raised, result, pc>>
    /\ UNCHANGED pipeVars
    /\ UNCHANGED <<call, ret>>

\* The pass that reaches the cap: raise, caught by `except Exception`, return []
\* (Faulty variant: the prominence halved before the cap is tested.)
FepRaiseHalvedFirst ==
    /\ pc = "fep"
    /\ LoopCond(Found, m)
    /\ CapReached(iterations + 1)
    /\ iterations' = iterations + 1
    /\ prominence' = Half(prominence)
    /\ tried' = tried \cup {prominence.exp}
    /\ raised' = TRUE
    /\ result' = <<>>
    /\ pc' = "fep_done"
    /\ failedStage' = IF failedStage = "none" THEN stage ELSE failedStage
    /\ UNCHANGED <<current, potential, m, initial>>
    /\ UNCHANGED <<stage, minList, maxList, minima, maxima, outcome>>
    /\ UNCHANGED <<call, ret>>

FepRaise ==
    /\ pc = "fep"
    /\ LoopCond(Found, m)
    /\ CapReached(iterations + 1)
    /\ iterations' = iterations + 1
    /\ tried' = tried \cup {prominence.exp}
    /\ raised' = TRUE
    /\ result' = <<>>
    /\ pc' = "fep_done"
    /\ failedStage' = IF failedStage = "none" THEN stage ELSE failedStage
    /\ UNCHANGED <<current, potential, m, initial, prominence>>
    /\ UNCHANGED <<stage, minList, maxList, minima, maxima, outcome>>
    /\ UNCHANGED <<call, ret>>

\* The loop condition is false: return filter_peak_by_prominence(...)
FepReturn ==
    /\ pc = "fep"
    /\ ~LoopCond(Found, m)
    /\ result' = Found
    /\ tried' = tried \cup {prominence.exp}
    /\ pc' = "fep_done"
    /\ UNCHANGED <<current, potential, m, initial, prominence, iterations, raised>>
    /\ UNCHANGED pipeVars
    /\ UNCHANGED <<call, ret>>

\* Initial prominences, in quanta of the current channel.
InitialProminences == {1, 3, Pow2(MaxIterations - 1), Pow2(MaxIterations)}

Ramp(n) == [i \in 0..(n - 1) |-> i - 5]

SearchInit ==
    /\ current \in Columns(TraceLen, Levels)
    /\ potential = Ramp(TraceLen)
    /\ m \in Kinds
    /\ initial \in {[num |-> n, exp |-> 0] : n \in InitialProminences}
    /\ prominence = initial
    /\ iterations = 0
    /\ tried = {}
    /\ raised = FALSE
    /\ result = <<>>
    /\ pc = "fep"
    /\ stage = "search"
    /\ failedStage = "none"
    /\ minList = <<>> /\ maxList = <<>>
    /\ minima = None /\ maxima = <<None, None>>
    /\ outcome = [kind |-> "none"]
    /\ call = [fn |-> "find_extreme_peaks"]
    /\ ret = [kind |-> "none"]

SearchNext == FepIterate \/ FepRaise \/ FepReturn

Spec == SearchInit /\ [][SearchNext]_vars

\* Python runs the loop to its end: a step that is possible is taken.
FairSpec == SearchInit /\ [][SearchNext]_vars /\ WF_vars(SearchNext)

-----------------------------------------------------------------------------
(* FeatureSelector: most_relevant_minimum and find_nearest_maxima *)

Abs(x) == IF x < 0 THEN 0 - x ELSE x

\* if diff < smallest_diff, where smallest_diff starts at float('inf') (None
\* here: every finite diff is below it)
\* (Faulty variant: <= in place of <.)
CloserOrEqual(diff, smallest) == smallest = None \/ diff <= smallest[1]
Closer(diff, smallest) == smallest = None \/ diff < smallest[1]

\* for idx in minima: ... ; the loop over the rest of the list
RECURSIVE MrmScan(_, _, _, _, _)
MrmScan(pot, rest, target, closest, smallest) ==
    IF rest = <<>> THEN closest
    ELSE LET idx == Head(rest)
             diff == Abs(pot[idx] - target)
         IN IF Closer(diff, smallest)
            THEN MrmScan(pot, Tail(rest), target, Some(idx), Some(diff))
            ELSE MrmScan(pot, Tail(rest), target, closest, smallest)

\* Returns None for an empty list, Some(index) otherwise.
most_relevant_minimum(pot, indices, target) == MrmScan(pot, indices, target, None, None)

\* maxima = sorted(maxima)
\* (Faulty variant: the list scanned as given.)
Unordered(s) == s
Ordered(s) == sorted(s)

\* for max_index in maxima: ... break
RECURSIVE FnmScan(_, _, _, _)
FnmScan(rest, min_index, before, after) ==
    IF rest = <<>> THEN <<before, after>>
    ELSE IF Head(rest) < min_index
         THEN FnmScan(Tail(rest), min_index, Some(Head(rest)), after)
    ELSE IF Head(rest) > min_index
         THEN <<before, IF after = None THEN Some(Head(rest)) ELSE after>>
    ELSE FnmScan(Tail(rest), min_index, before, after)

\* For an integer min_index: [max_before, max_after]
find_nearest_maxima(indices, min_index) == FnmScan(Ordered(indices), min_index, None, None)

-----------------------------------------------------------------------------
(* BaselineProjector: calculate_current_difference, on numpy float64.      *)
(* A float is [k, n, d]: the rational n/d ("fin", d > 0, lowest terms),    *)
(* an infinity ("inf", n its sign) or not-a-number ("nan").  Rounding and  *)
(* the sign of zero are not modelled.  numpy divides by zero with a        *)
(* warning, never an exception.  Indexing an array with None adds an axis  *)
(* and yields the whole array ("arr"); arithmetic then broadcasts.         *)

RECURSIVE Gcd(_, _)
Gcd(a, b) == IF b = 0 THEN a ELSE Gcd(b, a % b)

Sign(n) == IF n > 0 THEN 1 ELSE IF n < 0 THEN 0 - 1 ELSE 0

Fin(n, d) ==
    LET g == Gcd(Abs(n), Abs(d))
    IN [k |-> "fin", n |-> (Sign(d) * n) \div g, d |-> Abs(d) \div g]
Inf(s) == [k |-> "inf", n |-> s, d |-> 0]
NaN == [k |-> "nan", n |-> 0, d |-> 0]

IsZero(a) == a.k = "fin" /\ a.n = 0

FNeg(a) == [a EXCEPT !.n = 0 - a.n]

FAdd(a, b) ==
    IF a.k = "nan" \/ b.k = "nan" THEN NaN
    ELSE IF a.k = "inf" /\ b.k = "inf" THEN (IF a.n = b.n THEN a ELSE NaN)
    ELSE IF a.k = "inf" THEN a
    ELSE IF b.k = "inf" THEN b
    ELSE Fin(a.n * b.d + b.n * a.d, a.d * b.d)

FSub(a, b) == FAdd(a, FNeg(b))

FMul(a, b) ==
    IF a.k = "nan" \/ b.k = "nan" THEN NaN
    ELSE IF a.k = "inf" \/ b.k = "inf"
         THEN (IF IsZero(a) \/ IsZero(b) THEN NaN ELSE Inf(Sign(a.n) * Sign(b.n)))
    ELSE Fin(a.n * b.n, a.d * b.d)

FDiv(a, b) ==
    IF a.k = "nan" \/ b.k = "nan" THEN NaN
    ELSE IF IsZero(b) THEN (IF IsZero(a) THEN NaN ELSE Inf(Sign(a.n)))
    ELSE IF b.k = "inf" THEN (IF a.k = "inf" THEN NaN ELSE Fin(0, 1))
    ELSE IF a.k = "inf" THEN Inf(Sign(a.n) * Sign(b.n))
    ELSE Fin(a.n * b.d, a.d * b.n)

\* array[index]: an element, or with None the whole array under a new axis
At(column, index) ==
    IF index = None
    THEN [k |-> "arr", v |-> [i \in DOMAIN column |-> Fin(column[i], 1)]]
    ELSE Fin(column[index[1]], 1)

Elem(a, i) == IF a.k = "arr" THEN a.v[i] ELSE a

\* One of the float operations, by name.
Apply(op, a, b) ==
    CASE op = "+" -> FAdd(a, b)
      [] op = "-" -> FSub(a, b)
      [] op = "*" -> FMul(a, b)
      [] op = "/" -> FDiv(a, b)

\* A binary operation of numpy: elementwise when either operand is an array.
Broadcast(op, a, b) ==
    IF a.k = "arr" \/ b.k = "arr"
    THEN LET dom == IF a.k = "arr" THEN DOMAIN a.v ELSE DOMAIN b.v
         IN [k |-> "arr", v |-> [i \in dom |-> Apply(op, Elem(a, i), Elem(b, i))]]
    ELSE Apply(op, a, b)

calculate_current_difference(pot, cur, min_index, max_index1, max_index2) ==
    LET min_potential == At(pot, min_index)
        min_current == At(cur, min_index)
        max1_potential == At(pot, max_index1)
        max1_current == At(cur, max_index1)
        max2_potential == At(pot, max_index2)
        max2_current == At(cur, max_index2)
        slope == Broadcast("/", Broadcast("-", max2_current, max1_current),
                                 Broadcast("-", max2_potential, max1_potential))
        c == Broadcast("-", max1_current, Broadcast("*", slope, max1_potential))
        projected_current == Broadcast("+", Broadcast("*", slope, min_potential), c)
    IN Broadcast("-", min_current, projected_current)

-----------------------------------------------------------------------------
(* main() and plot_current_vs_potential_with_units: the pipeline.  The     *)
(* trace is taken after smooth_data; potentials are in tenths of a volt    *)
(* and currents in quanta of 0.05, so that the prominence 0.1 of the two   *)
(* searches is 2 quanta.                                                   *)

\* most_relevant_minimum(..., target_value=-0.3)
TargetValue == -3

\* find_extreme_peaks(df, 'Current', 0.1, ...)
DefaultProminence == [num |-> 2, exp |-> 0]

\* A forward sweep that turns back at sample 3 (SWV followed by reverse SWV).
ForwardReverse(n) == [i \in 0..(n - 1) |-> 0 - 2 - Abs(i - 3)]

Sweeps == {Ramp(PipeLen), ForwardReverse(PipeLen)}

Error(e) == [kind |-> "error", v |-> e]

\* main() enters the plot function, which starts the minima search (line 314)
StartMinima ==
    /\ pc = "main"
    /\ stage' = "minima"
    /\ m' = 1
    /\ initial' = DefaultProminence
    /\ prominence' = DefaultProminence
    /\ iterations' = 0
    /\ tried' = {}
    /\ raised' = FALSE
    /\ pc' = "fep"
    /\ UNCHANGED <<current, potential, result>>
    /\ UNCHANGED <<failedStage, minList, maxList, minima, maxima, outcome>>
    /\ UNCHANGED <<call, ret>>

\* min = <returned list>; the maxima search starts (line 315)
StartMaxima ==
    /\ pc = "fep_done" /\ stage = "minima"
    /\ minList' = result
    /\ stage' = "maxima"
    /\ m' = 0
    /\ initial' = DefaultProminence
    /\ prominence' = DefaultProminence
    /\ iterations' = 0
    /\ tried' = {}
    /\ raised' = FALSE
    /\ pc' = "fep"
    /\ UNCHANGED <<current, potential, result>>
    /\ UNCHANGED <<failedStage, maxList, minima, maxima, outcome>>
    /\ UNCHANGED <<call, ret>>

\* max = <returned list>; minima = most_relevant_minimum(df, min);
\* maxima = find_nearest_maxima(max, minima) (lines 315-318).  With minima
\* None, the first comparison max_index < None raises TypeError, which
\* nothing catches; with no maxima the loop body never runs.
SelectFeatures ==
    /\ pc = "fep_done" /\ stage = "maxima"
    /\ maxList' = result
    /\ minima' = most_relevant_minimum(potential, minList, TargetValue)
    /\ IF minima' = None /\ result # <<>>
       THEN /\ outcome' = Error("TypeError")
            /\ pc' = "main_done"
            /\ UNCHANGED <<maxima, stage>>
       ELSE /\ maxima' = IF minima' = None THEN <<None, None>>
                         ELSE find_nearest_maxima(result, minima'[1])
            /\ stage' = "selected"
            /\ pc' = "overlay"
            /\ UNCHANGED outcome
    /\ UNCHANGED <<current, potential, result, failedStage, minList>>
    /\ UNCHANGED <<m, initial, prominence, iterations, tried, raised>>
    /\ UNCHANGED <<call, ret>>

\* plt.plot(potential[maxima], current[maxima], ...) and the rest of the
\* plot function (lines 320-338).  maxima is a list; with a None in it the
\* outcome depends on the numpy in use: a current numpy raises IndexError
\* (an object array is no index), an older one reads the list as the tuple
\* (None, i), which indexes, or (None, None), whose 3-dimensional result
\* matplotlib refuses with ValueError.
PlotOverlay ==
    /\ pc = "overlay"
    /\ \/ /\ None \notin Range(maxima)
          /\ stage' = "plotted" /\ pc' = "gain" /\ UNCHANGED outcome
       \/ /\ None \in Range(maxima)
          /\ outcome' = Error("IndexError")
          /\ pc' = "main_done" /\ UNCHANGED stage
       \/ /\ maxima = <<None, None>>
          /\ outcome' = Error("ValueError")
          /\ pc' = "main_done" /\ UNCHANGED stage
       \/ /\ None \in Range(maxima) /\ maxima # <<None, None>>
          /\ stage' = "plotted" /\ pc' = "gain" /\ UNCHANGED outcome
    /\ UNCHANGED <<current, potential, result, failedStage, minList, maxList>>
    /\ UNCHANGED <<minima, maxima>>
    /\ UNCHANGED <<m, initial, prominence, iterations, tried, raised>>
    /\ UNCHANGED <<call, ret>>

\* print("The difference is ", utils.calculate_current_difference(...)) (line 27)
ReportGain ==
    /\ pc = "gain"
    /\ outcome' = [kind |-> "gain",
                   v |-> calculate_current_difference(potential, current, minima,
                                                      maxima[1], maxima[2])]
    /\ stage' = "gain_computed"
    /\ pc' = "main_done"
    /\ UNCHANGED <<current, potential, result, failedStage, minList, maxList>>
    /\ UNCHANGED <<minima, maxima>>
    /\ UNCHANGED <<m, initial, prominence, iterations, tried, raised>>
    /\ UNCHANGED <<call, ret>>

PipeInit ==
    /\ current \in Columns(PipeLen, Levels)
    /\ potential \in Sweeps
    /\ m = 1
    /\ initial = DefaultProminence
    /\ prominence = DefaultProminence
    /\ iterations = 0
    /\ tried = {}
    /\ raised = FALSE
    /\ result = <<>>
    /\ pc = "main"
    /\ stage = "smoothed"
    /\ failedStage = "none"
    /\ minList = <<>> /\ maxList = <<>>
    /\ minima = None /\ maxima = <<None, None>>
    /\ outcome = [kind |-> "none"]
    /\ call = [fn |-> "main"]
    /\ ret = [kind |-> "none"]

PipeNext ==
    \/ StartMinima \/ FepIterate \/ FepRaise \/ FepReturn
    \/ StartMaxima \/ SelectFeatures \/ PlotOverlay \/ ReportGain

PipeSpec == PipeInit /\ [][PipeNext]_vars

-----------------------------------------------------------------------------
(* Direct calls of the selection and projection functions, on arguments    *)
(* drawn from bounded sets.                                                *)

Potentials == {-4, -3, -2}
Targets == {-4, -3, -2}
FrameIdx == 0..(FrameLen - 1)
OptIdx == {None} \cup {Some(i) : i \in FrameIdx}

MrmCalls ==
    [fn : {"most_relevant_minimum"}, pot : Columns(FrameLen, Potentials),
     indices : Lists(FrameIdx, 1, MaxList), target : Targets]

FnmCalls ==
    [fn : {"find_nearest_maxima"}, indices : Lists(0..FrameLen, 0, MaxList),
     min_index : 0..FrameLen]

CalcCalls ==
    [fn : {"calculate_current_difference"}, pot : Columns(FrameLen, Potentials),
     cur : Columns(FrameLen, Levels), min_index : {Some(i) : i \in FrameIdx},
     max_index1 : OptIdx, max_index2 : OptIdx]

CallInit(calls) ==
    /\ call \in calls
    /\ ret = [kind |-> "none"]
    /\ pc = "call"
    /\ current = <<>> /\ potential = <<>>
    /\ m = 1
    /\ initial = DefaultProminence
    /\ prominence = DefaultProminence
    /\ iterations = 0
    /\ tried = {}
    /\ raised = FALSE
    /\ result = <<>>
    /\ stage = "call"
    /\ failedStage = "none"
    /\ minList = <<>> /\ maxList = <<>>
    /\ minima = None /\ maxima = <<None, None>>
    /\ outcome = [kind |-> "none"]

Returned(v) ==
    /\ ret' = [kind |-> "value", v |-> v]
    /\ pc' = "returned"
    /\ UNCHANGED <<current, potential, call>>
    /\ UNCHANGED searchVars
    /\ UNCHANGED pipeVars

CallMostRelevantMinimum ==
    /\ pc = "call" /\ call.fn = "most_relevant_minimum"
    /\ Returned(most_relevant_minimum(call.pot, call.indices, call.target))

CallFindNearestMaxima ==
    /\ pc = "call" /\ call.fn = "find_nearest_maxima"
    /\ Returned(find_nearest_maxima(call.indices, call.min_index))

CallCalculateCurrentDifference ==
    /\ pc = "call" /\ call.fn = "calculate_current_difference"
    /\ Returned(calculate_current_difference(call.pot, call.cur, call.min_index,
                                             call.max_index1, call.max_index2))

MrmSpec == CallInit(MrmCalls) /\ [][CallMostRelevantMinimum]_vars
FnmSpec == CallInit(FnmCalls) /\ [][CallFindNearestMaxima]_vars
CalcSpec == CallInit(CalcCalls) /\ [][CallCalculateCurrentDifference]_vars

-----------------------------------------------------------------------------
(* Properties of the adaptive search, checked under Spec and FairSpec *)

\* What a direct ExtremumFinder call returns after k halvings of the initial
\* prominence.
DirectAt(k) == filter_peak_by_prominence(current, [num |-> initial.num, exp |-> k], m)

\* No prominence among the first MaxIterations of the halving sequence yields
\* a qualifying set.
Exhausted == \A k \in 0..(MaxIterations - 1) : DirectAt(k) = <<>>

IsFlat == \A i \in DOMAIN current : current[i] = current[0]

\* C2: when the iteration cap is reached without ExtremumFinder ever
\* returning a qualifying set, the search ends in its failure outcome (the
\* exception of the cap, reported to the caller as the empty list), and a
\* normal return is never the empty list, so the caller can tell them apart.
C2_ExhaustionFails ==
    pc = "fep_done" =>
        /\ Exhausted => (raised /\ result = <<>>)
        /\ ~raised => result # <<>>

C2_Witness ==
    /\ pc = "fep_done" /\ Exhausted /\ raised /\ result = <<>>
    /\ ~IsFlat /\ m = 1

\* C3: the search always returns, after at most 15 passes of the loop, for
\* every trace (flat ones included), kind and positive initial prominence.
C3_Terminates == <>(pc = "fep_done") /\ [](iterations <= MaxIterations)

C3_Witness == pc = "fep_done" /\ IsFlat /\ iterations = MaxIterations

C9_FifteenHalvings ==
    raised =>
        /\ prominence = [num |-> initial.num, exp |-> initial.exp + MaxIterations]
        /\ tried = 0..MaxIterations

\* C9 amended: at failure by exhaustion the loop has made 15 passes, the
\* prominence has been halved 14 times, and ExtremumFinder was tried after k
\* halvings for every k in 0..14.
C9_FourteenHalvings ==
    raised =>
        /\ iterations = MaxIterations
        /\ prominence = [num |-> initial.num, exp |-> initial.exp + MaxIterations - 1]
        /\ tried = 0..(MaxIterations - 1)

\* The search failed although a 15th halving would have found a set.
C9_Witness == raised /\ pc = "fep_done" /\ DirectAt(MaxIterations) # <<>>

\* C10: for both kinds the search stops at the first prominence of the
\* halving sequence at which ExtremumFinder returns a non-empty list (2 or
\* more extrema), returns exactly what a direct ExtremumFinder call returns
\* there, fails only when no prominence of the sequence qualifies, and the
\* decision to halve again does not depend on the kind.
C10_StopsAtFirst ==
    /\ (pc = "fep_done" /\ ~raised) =>
            /\ prominence = [num |-> initial.num, exp |-> initial.exp + iterations]
            /\ result = DirectAt(prominence.exp)
            /\ Len(result) >= 2
            /\ \A k \in 0..(prominence.exp - 1) : DirectAt(k) = <<>>
    /\ (pc = "fep_done" /\ raised) => Exhausted
    /\ \A k \in Kinds :
            LET found == filter_peak_by_prominence(current, prominence, k)
            IN \A k2 \in Kinds : LoopCond(found, k2) = LoopCond(found, k)

\* A maxima search that succeeded after at least one halving.
C10_Witness ==
    /\ pc = "fep_done" /\ ~raised /\ m = 0
    /\ prominence.exp >= 1
    /\ Len(result) >= 2

-----------------------------------------------------------------------------
(* Properties of the pipeline, checked under PipeSpec *)

\* C1: once a stage has failed, no later stage runs, the caller receives
\* the failing stage's error kind, and no gain is reported.
C1_FailureHalts ==
    failedStage # "none" =>
        /\ stage = failedStage
        /\ outcome.kind # "gain"
        /\ pc = "main_done" => outcome = Error("NoExtremumFound")

-----------------------------------------------------------------------------
(* Properties of the selection functions, checked under MrmSpec and FnmSpec *)

Distance(i) == Abs(call.pot[i] - call.target)
SmallestDistance == Min({Distance(i) : i \in Range(call.indices)})
FirstClosest ==
    call.indices[Min({j \in DOMAIN call.indices :
                        Distance(call.indices[j]) = SmallestDistance})]

\* C5: for a non-empty list of minima and any target, most_relevant_minimum
\* returns an index of the list whose potential is closest to the target,
\* and among several closest ones the first of the list.
C5_ClosestFirst ==
    pc = "returned" =>
        /\ ret.v # None
        /\ ret.v[1] \in Range(call.indices)
        /\ \A i \in Range(call.indices) : Distance(ret.v[1]) <= Distance(i)
        /\ ret.v[1] = FirstClosest

\* Two different indices of the list are equally close, and closest.
C5_Witness ==
    /\ pc = "returned"
    /\ \E i, j \in DOMAIN call.indices :
          /\ i < j
          /\ call.indices[i] # call.indices[j]
          /\ Distance(call.indices[i]) = SmallestDistance
          /\ Distance(call.indices[j]) = SmallestDistance
          /\ ret.v = Some(call.indices[i])

Below == {x \in Range(call.indices) : x < call.min_index}
Above == {x \in Range(call.indices) : x > call.min_index}

\* C6: for a list of maxima in any order and any minimum index,
\* find_nearest_maxima returns before = the greatest listed index below
\* the minimum (None without one) and after = the smallest listed index
\* above it (None without one); when both exist the minimum lies strictly
\* between them.
C6_NearestBracket ==
    pc = "returned" =>
        /\ ret.v[1] = (IF Below = {} THEN None ELSE Some(Max(Below)))
        /\ ret.v[2] = (IF Above = {} THEN None ELSE Some(Min(Above)))
        /\ (ret.v[1] # None /\ ret.v[2] # None) =>
                (ret.v[1][1] < call.min_index /\ call.min_index < ret.v[2][1])

\* A list that is not ascending, with maxima on both sides of the minimum.
C6_Witness ==
    /\ pc = "returned"
    /\ call.indices # sorted(call.indices)
    /\ Cardinality(Below) >= 2 /\ Above # {}
    /\ ret.v[1] # None /\ ret.v[2] # None

-----------------------------------------------------------------------------
(* Properties of the baseline projection, checked under CalcSpec *)

\* C7: with the before index or the after index absent,
\* calculate_current_difference fails with IncompleteBracket and returns
\* no value.
C7_IncompleteBracket ==
    (pc = "returned" /\ (call.max_index1 = None \/ call.max_index2 = None)) =>
        (ret.kind = "error" /\ ret.v = "IncompleteBracket")

\* C8: when the two maxima have the same potential,
\* calculate_current_difference fails with DegenerateBaseline and returns
\* no value derived from the slope division.
C8_DegenerateBaseline ==
    (/\ pc = "returned"
     /\ call.max_index1 # None /\ call.max_index2 # None
     /\ call.pot[call.max_index1[1]] = call.pot[call.max_index2[1]]) =>
        (ret.kind = "error" /\ ret.v = "DegenerateBaseline")

====
